---- MODULE Spec2Model ----
(***************************************************************************)
(* Model of bytenode's lib/index.js: compiling JavaScript to V8 bytecode   *)
(* cache buffers (in-process and through an Electron child process) and    *)
(* loading such buffers back (format check, Brotli fallback, header fixup, *)
(* placeholder source, vm.Script).                                         *)
(*                                                                         *)
(* Buffers are sequences of bytes; offsets in the source are 0-based, so   *)
(* offset i of the source is element i+1 here.                             *)
(***************************************************************************)
EXTENDS Integers, Sequences, FiniteSets, TLC

\* ------------------------------------------------------------------ bounds
\* Longest source text (in code units) handed to the in-process compiler
\* when the model builds cache buffers to load.
MaxSourceLen == 3
\* Largest number of stdout chunks a child process emits.
MaxChunks == 2

\* --------------------------------------------------------------- constants
COMPILED_EXTNAME == ".jsc"
MAGIC_NUMBER == <<222, 192>>
ZERO_LENGTH_EXTERNAL_REFERENCE_TABLE == <<0, 0>>
\* V8's maximum string length: String.prototype.repeat throws above it.
MaxStringLength == 536870888

\* A value that is not a Buffer (Buffer.isBuffer is false for it).
NotABuffer == <<-1>>
\* The content of a path that does not exist.
Absent == <<-2>>

Min(a, b) == IF a < b THEN a ELSE b

\* --------------------------------------------------------- Buffer helpers
\* Buffer.isBuffer
IsBuffer(b) == b # NotABuffer /\ b # Absent

\* buffer.subarray(start, end), 0-based, end exclusive, clamped to the buffer
subarray(buffer, start, end) ==
  SubSeq(buffer, Min(start, Len(buffer)) + 1, Min(end, Len(buffer)))

\* source.copy(target, targetStart): overwrites target from targetStart with
\* as many bytes of source as fit; nothing when targetStart is past the end.
copy(source, target, targetStart) ==
  [i \in 1..Len(target) |->
     IF i - 1 >= targetStart /\ i - 1 < targetStart + Len(source)
     THEN source[i - targetStart]
     ELSE target[i]]

\* --------------------------------------------------------------- Brotli
\* zlib's Brotli is modelled as a framing: a marker byte, the payload length
\* and the payload.  Decompression fails on anything that is not a frame.
BrotliMarker == 11

brotliCompressSync(b) == <<BrotliMarker, Len(b)>> \o b

brotliDecompressSync(b) ==
  IF Len(b) >= 2 /\ b[1] = BrotliMarker /\ b[2] = Len(b) - 2
  THEN [ok |-> TRUE, bytes |-> SubSeq(b, 3, Len(b))]
  ELSE [ok |-> FALSE, bytes |-> <<>>]

\* --------------------------------------------------- process.version string
\* Strings are sequences of one-character strings.
DigitChars == <<"0", "1", "2", "3", "4", "5", "6", "7", "8", "9">>

RECURSIVE DecimalDigits(_)
DecimalDigits(n) ==
  IF n < 10 THEN <<DigitChars[n + 1]>>
  ELSE DecimalDigits(n \div 10) \o <<DigitChars[(n % 10) + 1]>>

\* process.version is "v" + major + "." + minor + "." + patch.
ProcessVersion(ver) ==
  <<"v">> \o DecimalDigits(ver[1]) \o <<".">> \o DecimalDigits(ver[2])
          \o <<".">> \o DecimalDigits(ver[3])

\* String.prototype.slice(start, end)
slice(s, start, end) == SubSeq(s, Min(start, Len(s)) + 1, Min(end, Len(s)))

\* String.prototype.startsWith
startsWith(s, prefix) ==
  Len(s) >= Len(prefix) /\ SubSeq(s, 1, Len(prefix)) = prefix

IsDigit(c) == \E d \in 1..10 : DigitChars[d] = c
DigitValue(c) == (CHOOSE d \in 1..10 : DigitChars[d] = c) - 1

\* Length of the longest prefix of s, from position p on, made of digits.
RECURSIVE DigitRun(_, _)
DigitRun(s, p) ==
  IF p <= Len(s) /\ IsDigit(s[p]) THEN 1 + DigitRun(s, p + 1) ELSE 0

RECURSIVE DigitsValue(_)
DigitsValue(ds) ==
  IF Len(ds) = 0 THEN 0
  ELSE DigitsValue(SubSeq(ds, 1, Len(ds) - 1)) * 10 + DigitValue(ds[Len(ds)])

RECURSIVE Pow(_, _)
Pow(b, e) == IF e = 0 THEN 1 ELSE b * Pow(b, e - 1)

\* parseFloat of a string of digits and dots, in thousandths: the integer
\* digits, then at most one "." followed by digits; parsing stops at the
\* first character that does not continue the number.
parseFloat(s) ==
  LET ni == DigitRun(s, 1)
      ip == DigitsValue(SubSeq(s, 1, ni))
      hasDot == ni + 1 <= Len(s) /\ s[ni + 1] = "."
      nf == IF hasDot THEN Min(DigitRun(s, ni + 2), 3) ELSE 0
      fp == DigitsValue(SubSeq(s, ni + 2, ni + 1 + nf))
  IN ip * 1000 + fp * Pow(10, 3 - nf)

\* ------------------------------------------------------------ the engine
\* Engine versions a process may run (process.version as <<major, minor,
\* patch>>): the 8.8/8.9 builds, other pre-12 builds, and 12 and later.
Versions ==
  { <<8, 8, 0>>, <<8, 9, 4>>, <<8, 17, 0>>, <<9, 11, 2>>, <<10, 24, 1>>,
    <<12, 0, 0>>, <<12, 22, 1>>, <<18, 17, 0>>, <<20, 0, 0>>, <<20, 11, 0>>,
    <<22, 3, 0>> }

\* Header layout the engine build itself uses for its cache data.
IsLegacyEngine(ver) == ver[1] = 8 /\ ver[2] \in {8, 9}
IsModernEngine(ver) == ver[1] >= 12

\* A source text: its length in code units and whether it parses.
Source(len, parses) == [len |-> len, parses |-> parses]

\* '"ಠ_ಠ"', the fixed reference source of fixBytecode: five code units.
DummySource == Source(5, TRUE)

\* A 32-bit little-endian field.
LE32(n) == << n % 256, (n \div 256) % 256, (n \div 65536) % 256,
              (n \div 16777216) % 256 >>

\* The engine's version hash (offsets 4..7) and its build-flag bytes: both
\* depend on the engine build only, never on the compiled source.
VersionHash(ver) == << ver[1], 0, 0, 64 >>
FlagHash(ver, salt) ==
  << (ver[1] * 7 + ver[2] + salt) % 256, (ver[2] + 3 * salt) % 256, salt, 1 >>

\* The payload the engine serialises for a source, and its checksum field.
Payload(src) == [i \in 1..((src.len % 3) + 1) |-> 160 + src.len]
Checksum(payload) == LE32(Len(payload) * 31 + payload[1])

\* script.createCachedData(): the cache buffer the running engine produces.
\*   8.8/8.9:  magic | version | cpu | source length | flags | flags2
\*   >= 12:    magic | version | source length | flags | payload length | checksum
\*   others:   magic | version | source length | cpu | flags | payload length
createCachedData(src, ver) ==
  LET magic == <<ver[1], 3>> \o MAGIC_NUMBER
      p == Payload(src)
  IN IF IsLegacyEngine(ver)
     THEN magic \o VersionHash(ver) \o FlagHash(ver, 1) \o LE32(src.len)
                \o FlagHash(ver, 2) \o FlagHash(ver, 3) \o p
     ELSE IF IsModernEngine(ver)
     THEN magic \o VersionHash(ver) \o LE32(src.len) \o FlagHash(ver, 2)
                \o LE32(Len(p)) \o Checksum(p) \o p
     ELSE magic \o VersionHash(ver) \o LE32(src.len) \o FlagHash(ver, 1)
                \o FlagHash(ver, 2) \o LE32(Len(p)) \o p

\* compileCode compiling whatever it is given, with no SyntaxError.
compileCodeLenient(javascriptCode, compress, ver) ==
  LET bytecodeBuffer == createCachedData(javascriptCode, ver)
  IN [err |-> "",
      bytes |-> IF compress = TRUE THEN brotliCompressSync(bytecodeBuffer)
                ELSE bytecodeBuffer]

\* compileCode(javascriptCode, compress) under engine ver.  A source that
\* does not parse makes new vm.Script throw a SyntaxError.
compileCode(javascriptCode, compress, ver) ==
  IF ~javascriptCode.parses
  THEN [err |-> "SyntaxError", bytes |-> <<>>]
  ELSE LET bytecodeBuffer == createCachedData(javascriptCode, ver)
       IN [err |-> "",
           bytes |-> IF compress = TRUE THEN brotliCompressSync(bytecodeBuffer)
                     ELSE bytecodeBuffer]

\* script.cachedDataRejected: the engine's sanity check of the cache data
\* against the source text it is given (of length sourceLen).
cachedDataRejected(cachedData, sourceLen, ver) ==
  LET own == createCachedData(Source(sourceLen, TRUE), ver)
      tail == subarray(cachedData, 24, Len(cachedData))
  IN ~ ( /\ Len(cachedData) > 24
         /\ subarray(cachedData, 0, 12) = subarray(own, 0, 12)
         /\ IF IsLegacyEngine(ver)
            THEN subarray(cachedData, 12, 24) = subarray(own, 12, 24)
            ELSE IF IsModernEngine(ver)
            THEN /\ subarray(cachedData, 12, 16) = subarray(own, 12, 16)
                 /\ subarray(cachedData, 16, 20) = LE32(Len(tail))
                 /\ subarray(cachedData, 20, 24) = Checksum(tail)
            ELSE /\ subarray(cachedData, 12, 20) = subarray(own, 12, 20)
                 /\ subarray(cachedData, 20, 24) = LE32(Len(tail)) )

\* ------------------------------------------------------- format validator
isBufferV8Bytecode(buffer) ==
  /\ IsBuffer(buffer)
  /\ subarray(buffer, 0, 2) # ZERO_LENGTH_EXTERNAL_REFERENCE_TABLE
  /\ subarray(buffer, 2, 4) = MAGIC_NUMBER

\* ------------------------------------------------------------------ fixup
\* The branch of fixBytecode taken under the running engine.
FixBucket(ver) ==
  LET version == parseFloat(slice(ProcessVersion(ver), 1, 5))
  IN IF \/ startsWith(ProcessVersion(ver), <<"v", "8", ".", "8">>)
        \/ startsWith(ProcessVersion(ver), <<"v", "8", ".", "9">>)
     THEN "legacy"
     ELSE IF version >= 12000 /\ version <= 20000
     THEN "modern"
     ELSE "catchall"

\* fixBytecode with the second copy of the catch-all branch landing on the
\* first one's offset.
fixBytecodeSameOffset(bytecodeBuffer, ver) ==
  LET dummyBytecode == compileCode(DummySource, FALSE, ver).bytes
      bucket == FixBucket(ver)
  IN IF bucket = "legacy"
     THEN copy(subarray(dummyBytecode, 20, 24),
               copy(subarray(dummyBytecode, 16, 20), bytecodeBuffer, 16), 20)
     ELSE IF bucket = "modern"
     THEN copy(subarray(dummyBytecode, 12, 16), bytecodeBuffer, 12)
     ELSE copy(subarray(dummyBytecode, 16, 20),
               copy(subarray(dummyBytecode, 12, 16), bytecodeBuffer, 12), 12)

\* fixBytecode(bytecodeBuffer): the content of bytecodeBuffer afterwards.
fixBytecode(bytecodeBuffer, ver) ==
  LET dummyBytecode == compileCode(DummySource, FALSE, ver).bytes
      bucket == FixBucket(ver)
  IN IF bucket = "legacy"
     THEN copy(subarray(dummyBytecode, 20, 24),
               copy(subarray(dummyBytecode, 16, 20), bytecodeBuffer, 16), 20)
     ELSE IF bucket = "modern"
     THEN copy(subarray(dummyBytecode, 12, 16), bytecodeBuffer, 12)
     ELSE copy(subarray(dummyBytecode, 16, 20),
               copy(subarray(dummyBytecode, 12, 16), bytecodeBuffer, 12), 16)

\* ------------------------------------------------------------ rehydrator
\* reduce((sum, number, power) => sum += number * 256^power, 0)
RECURSIVE ReduceLE(_, _)
ReduceLE(bytes, power) ==
  IF Len(bytes) = 0 THEN 0
  ELSE bytes[1] * Pow(256, power) + ReduceLE(Tail(bytes), power + 1)

readSourceHash(bytecodeBuffer, ver) ==
  IF \/ startsWith(ProcessVersion(ver), <<"v", "8", ".", "8">>)
     \/ startsWith(ProcessVersion(ver), <<"v", "8", ".", "9">>)
  THEN ReduceLE(subarray(bytecodeBuffer, 12, 16), 0)
  ELSE ReduceLE(subarray(bytecodeBuffer, 8, 12), 0)

\* Strings are kept as runs <<[ch, n], ...>>: n copies of character ch.
\* String.prototype.repeat and string concatenation on that form.
repeat(ch, n) == IF n = 0 THEN <<>> ELSE << [ch |-> ch, n |-> n] >>

RECURSIVE StrLen(_)
StrLen(s) == IF Len(s) = 0 THEN 0 ELSE s[1].n + StrLen(Tail(s))

Quote == << [ch |-> "quote", n |-> 1] >>

\* The placeholder with the delimiters left out of the count.
DummyCodeUncounted(length) ==
  IF length > 1 THEN Quote \o repeat("u200b", length) \o Quote ELSE <<>>

\* Lines 33-39 of generateScript: the placeholder source for a length.
DummyCode(length) ==
  IF length > 1 THEN Quote \o repeat("u200b", length - 2) \o Quote ELSE <<>>

\* ------------------------------------------------------------------ state
VARIABLES
  version,        \* process.version of the running process, <<major, minor, patch>>
  files,          \* the file system: path -> bytes, or Absent
  callerBuf,      \* the Buffer object the caller of runBytecode holds
  last,           \* what the last load did (its stages and its outcome)
  env,            \* how require('electron') answers in this installation
  req,            \* the compile request in progress or last finished
  pc,             \* "idle", "awaiting" (compileFile suspended at await), "done"
  child,          \* the spawned child process and what it still has to emit
  data,           \* the stdout bytes accumulated by compileElectronCode
  promise,        \* the promise compileElectronCode returned
  outcome         \* how the last compile request ended and what it wrote

vars == << version, files, callerBuf, last, env, req, pc, child, data,
           promise, outcome >>

loadVars == << version, files, callerBuf, last >>
compileVars == << env, req, pc, child, data, promise, outcome >>

JscPath == "a" \o COMPILED_EXTNAME
LoaderPath == "a.loader.js"
MissingPath == "missing" \o COMPILED_EXTNAME
Paths == {JscPath, LoaderPath, MissingPath}

\* -------------------------------------------------------- generateScript
NoLoad ==
  [op |-> "none", input |-> <<>>, err |-> "", valid |-> FALSE,
   decompressed |-> FALSE, inflated |-> <<>>, fixRan |-> FALSE,
   target |-> <<>>, fixed |-> <<>>, bucket |-> "none", length |-> -1,
   placeholder |-> FALSE, dummyCode |-> <<>>, script |-> FALSE, arg |-> <<>>]

\* Lines 33-47: read the length, build the placeholder, make the script.
\* r is the record of the stages so far, cachedData the fixed buffer.
Rehydrate(r, cachedData, ver) ==
  LET length == readSourceHash(cachedData, ver)
  IN IF length > 1 /\ length - 2 > MaxStringLength
     THEN [r EXCEPT !.err = "Invalid string length", !.length = length]
     ELSE LET dummyCode == DummyCode(length)
              r2 == [r EXCEPT !.length = length, !.placeholder = TRUE,
                              !.dummyCode = dummyCode]
          IN IF cachedDataRejected(cachedData, StrLen(dummyCode), ver)
             THEN [r2 EXCEPT !.err =
                     "Invalid or incompatible cached data (cachedDataRejected)"]
             ELSE [r2 EXCEPT !.script = TRUE]

\* generateScript(cachedData, filename): the stages it went through, its
\* error if it threw, and arg, the content afterwards of the Buffer object
\* that was passed in.
generateScript(cachedData, ver) ==
  LET r0 == [NoLoad EXCEPT !.input = cachedData, !.arg = cachedData,
                           !.valid = isBufferV8Bytecode(cachedData)]
      dec == brotliDecompressSync(cachedData)
  IN IF ~r0.valid /\ ~dec.ok
     THEN [r0 EXCEPT !.decompressed = TRUE, !.err = "Decompression failed"]
     ELSE IF ~r0.valid /\ ~isBufferV8Bytecode(dec.bytes)
     THEN [r0 EXCEPT !.decompressed = TRUE, !.inflated = dec.bytes,
                     !.err = "Invalid bytecode buffer"]
     ELSE LET target == IF r0.valid THEN cachedData ELSE dec.bytes
              fixed == fixBytecode(target, ver)
              r1 == [r0 EXCEPT !.decompressed = ~r0.valid,
                               !.inflated = IF r0.valid THEN <<>> ELSE dec.bytes,
                               !.fixRan = TRUE, !.target = target,
                               !.fixed = fixed, !.bucket = FixBucket(ver),
                               !.arg = IF r0.valid THEN fixed ELSE cachedData]
          IN Rehydrate(r1, fixed, ver)

\* ------------------------------------------------------------ the loads
\* runBytecode(bytecodeBuffer), called on the Buffer the caller holds.
runBytecode(bytecodeBuffer, ver) ==
  IF ~IsBuffer(bytecodeBuffer)
  THEN [NoLoad EXCEPT !.input = bytecodeBuffer, !.arg = bytecodeBuffer,
                      !.err = "bytecodeBuffer must be a buffer object."]
  ELSE generateScript(bytecodeBuffer, ver)

RunBytecode ==
  LET r == runBytecode(callerBuf, version)
  IN /\ pc = "idle"
     /\ last' = [r EXCEPT !.op = "runBytecode"]
     /\ callerBuf' = r.arg
     /\ UNCHANGED << version, files, compileVars >>

\* runBytecodeFile saving the patched buffer back to the file it read.
RunBytecodeFileSavingFixup(filename) ==
  /\ pc = "idle"
  /\ last' = IF files[filename] = Absent
             THEN [NoLoad EXCEPT !.op = "runBytecodeFile", !.input = Absent,
                                 !.err = "ENOENT"]
             ELSE [runBytecode(files[filename], version)
                     EXCEPT !.op = "runBytecodeFile"]
  /\ files' = IF files[filename] = Absent THEN files
              ELSE [files EXCEPT
                      ![filename] = runBytecode(files[filename], version).arg]
  /\ UNCHANGED << version, callerBuf, compileVars >>

\* runBytecodeFile(filename): reads the file into a Buffer of its own.
RunBytecodeFile(filename) ==
  /\ pc = "idle"
  /\ last' = IF files[filename] = Absent
             THEN [NoLoad EXCEPT !.op = "runBytecodeFile", !.input = Absent,
                                 !.err = "ENOENT"]
             ELSE [runBytecode(files[filename], version)
                     EXCEPT !.op = "runBytecodeFile"]
  /\ UNCHANGED << version, files, callerBuf, compileVars >>

\* Module._extensions['.jsc'](fileModule, filename)
LoadJsc(filename) ==
  /\ pc = "idle"
  /\ last' = IF files[filename] = Absent
             THEN [NoLoad EXCEPT !.op = "require", !.input = Absent,
                                 !.err = "ENOENT"]
             ELSE [generateScript(files[filename], version)
                     EXCEPT !.op = "require"]
  /\ UNCHANGED << version, files, callerBuf, compileVars >>

\* ------------------------------------------------------- inputs of loads
\* Engine builds that produced the cache buffers being loaded.
CompiledBy == { <<8, 9, 4>>, <<10, 24, 1>>, <<12, 22, 1>>, <<20, 11, 0>> }

CompiledBuffers ==
  { compileCode(Source(n, TRUE), c, w).bytes :
      n \in 0..MaxSourceLen, c \in BOOLEAN, w \in CompiledBy }

\* Ten bytes that are neither a cache buffer nor a Brotli frame.
RandomBytes == <<17, 4, 99, 250, 8, 41, 7, 130, 66, 201>>
\* A cache header cut short, and one whose first two bytes are zero.
ShortBuffer == <<12, 3>> \o MAGIC_NUMBER \o <<12, 0, 0, 64, 2, 0, 0, 0, 9, 9>>
ZeroTableBuffer ==
  ZERO_LENGTH_EXTERNAL_REFERENCE_TABLE
    \o SubSeq(createCachedData(Source(2, TRUE), <<12, 22, 1>>), 3, 27)
\* A cache buffer whose source-length field is beyond any string.
HugeLengthBuffer ==
  [createCachedData(Source(2, TRUE), <<12, 22, 1>>) EXCEPT ![12] = 64]

OddBuffers ==
  { RandomBytes, brotliCompressSync(RandomBytes), ShortBuffer,
    MAGIC_NUMBER \o MAGIC_NUMBER, ZeroTableBuffer, HugeLengthBuffer }

LoadInputs == CompiledBuffers \cup OddBuffers \cup {NotABuffer}

FileInputs ==
  { compileCode(Source(n, TRUE), c, <<12, 22, 1>>).bytes :
      n \in {1, MaxSourceLen}, c \in BOOLEAN }
    \cup { RandomBytes, ShortBuffer, Absent }

\* ------------------------------------------------- compile side, at rest
NoRequest ==
  [op |-> "none", source |-> Source(0, TRUE), sheBang |-> FALSE,
   compileAsModule |-> FALSE, compress |-> FALSE, electron |-> FALSE,
   electronPath |-> "", createLoader |-> FALSE]

NoChild ==
  [spawned |-> FALSE, exe |-> "", stdin |-> Source(0, TRUE),
   compress |-> FALSE, pending |-> <<>>, output |-> <<>>, stderr |-> 0,
   error |-> FALSE, streamError |-> FALSE, streamErrored |-> FALSE,
   destroyed |-> FALSE, ended |-> FALSE, exits |-> FALSE, exited |-> FALSE, exitCode |-> 0]

\* by: the event whose handler settled the promise; compressions: how often
\* onEnd has compressed data so far.
NoPromise ==
  [state |-> "none", value |-> <<>>, err |-> "", by |-> "", compressions |-> 0]

NoOutcome == [done |-> FALSE, err |-> "", written |-> FALSE]

CompileAtRest ==
  /\ req = NoRequest
  /\ pc = "idle"
  /\ child = NoChild
  /\ data = <<>>
  /\ promise = NoPromise
  /\ outcome = NoOutcome

\* ------------------------------------------------- specification of loads
InitLoad ==
  /\ version \in Versions
  /\ files \in { [p \in Paths |-> IF p = JscPath THEN b ELSE Absent] :
                   b \in FileInputs }
  /\ callerBuf \in LoadInputs
  /\ last = NoLoad
  /\ env = "ok"
  /\ CompileAtRest

NextLoad ==
  \/ RunBytecode
  \/ \E f \in {JscPath, MissingPath} : RunBytecodeFile(f)
  \/ \E f \in {JscPath, MissingPath} : LoadJsc(f)

SpecLoad == InitLoad /\ [][NextLoad]_vars

\* ------------------------------------------------------- claims on loads
LoadOps == {"runBytecode", "runBytecodeFile", "require"}

\* The offsets at which two buffers of equal length differ.
Differences(a, b) == { i \in 0..(Len(a) - 1) : a[i + 1] # b[i + 1] }

\* C3 (as stated): a load changes neither the stored file nor the buffer
\* the caller handed in.
C3_LoadLeavesCallerBufferAndFile ==
  [][files' = files /\ callerBuf' = callerBuf]_vars

\* C3 (amended): a load never changes the stored file; the buffer the
\* caller handed in changes only in runBytecode on a buffer that passes the
\* format check as given, which Fixup patches in place: afterwards it holds
\* Fixup's output and differs from before within offsets 12..23 only.
C3_LoadLeavesFile ==
  [][ /\ files' = files
      /\ callerBuf' # callerBuf =>
           /\ last'.op = "runBytecode"
           /\ isBufferV8Bytecode(callerBuf)
           /\ last'.fixRan /\ last'.target = callerBuf
           /\ callerBuf' = last'.fixed
           /\ Len(callerBuf') = Len(callerBuf)
           /\ Differences(callerBuf, callerBuf') \subseteq 12..23
      /\ (last'.op \in {"runBytecodeFile", "require"} \/ ~isBufferV8Bytecode(callerBuf))
           => callerBuf' = callerBuf ]_vars

\* C3 witness: runBytecode ran Fixup on the caller's own buffer and the
\* buffer the caller holds is now the patched one, unlike what was passed.
C3_Witness ==
  /\ last.op = "runBytecode" /\ last.fixRan /\ last.valid
  /\ callerBuf = last.fixed /\ last.fixed # last.input

\* The source-length field as the header layout places it: four bytes,
\* little-endian, at offset 8 (offset 12 under 8.8.x and 8.9.x).
LengthField(b, ver) ==
  LET at == IF ver[1] = 8 /\ ver[2] \in {8, 9} THEN 12 ELSE 8
  IN b[at + 1] + 256 * b[at + 2] + 65536 * b[at + 3] + 16777216 * b[at + 4]

\* C4 (as stated): the placeholder has exactly L code units for every
\* declared length L >= 0, and is empty when L <= 1.
C4_PlaceholderHasDeclaredLength ==
  last.placeholder =>
    /\ StrLen(last.dummyCode) = last.length
    /\ last.length <= 1 => last.dummyCode = <<>>

\* C4 (amended): for a declared length L >= 2 (up to the engine's longest
\* string) the placeholder is a quote, L-2 fillers and a quote, L code units
\* in all; for L <= 1 it is the empty text, of 0 code units, so for L = 1
\* it is one unit short.  L is the little-endian source-length field.
C4_PlaceholderLength ==
  last.placeholder =>
    /\ Len(last.fixed) >= 16 => last.length = LengthField(last.fixed, version)
    /\ last.length >= 2 =>
         /\ StrLen(last.dummyCode) = last.length
         /\ Head(last.dummyCode).ch = "quote" /\ Head(last.dummyCode).n = 1
         /\ last.dummyCode[Len(last.dummyCode)] = Head(last.dummyCode)
         /\ \A k \in 2..(Len(last.dummyCode) - 1) : last.dummyCode[k].ch = "u200b"
    /\ last.length <= 1 => last.dummyCode = <<>> /\ StrLen(last.dummyCode) = 0

\* C4 witness: a load built the placeholder for a declared length above 2.
C4_Witness ==
  /\ last.placeholder /\ last.length > 2
  /\ StrLen(last.dummyCode) = last.length /\ Len(last.dummyCode) = 3

\* The flag-byte offsets the header layout assigns to each bucket.
BucketOffsets(bucket) ==
  CASE bucket = "legacy" -> (16..19) \cup (20..23)
    [] bucket = "modern" -> 12..15
    [] bucket = "catchall" -> (12..15) \cup (16..19)
    [] OTHER -> {}

\* C5: after Fixup, at every offset of the selected bucket's ranges the
\* target holds the byte of a reference buffer freshly compiled by the
\* running engine, every other byte of the target is as before, and the
\* ranges are among 12-15, 16-19, 20-23.
C5_HeaderPatch ==
  last.fixRan =>
    LET ref == createCachedData(DummySource, version)
        offs == BucketOffsets(last.bucket)
    IN /\ last.bucket \in {"legacy", "modern", "catchall"}
       /\ Len(last.fixed) = Len(last.target)
       /\ \A i \in 0..(Len(last.target) - 1) :
            last.fixed[i + 1] = IF i \in offs THEN ref[i + 1]
                                ELSE last.target[i + 1]

\* C5 witness: Fixup ran on a full header under the catch-all bucket and
\* changed it.
C5_Witness ==
  /\ last.fixRan /\ last.bucket = "catchall"
  /\ Len(last.target) >= 24 /\ last.fixed # last.target

\* C6: a buffer that fails the format check and either does not decompress
\* or decompresses to bytes that still fail it makes the load fail with
\* 'Invalid bytecode buffer', with neither Fixup nor the Rehydrator run.
C6_InvalidBytecode ==
  ( /\ last.op \in LoadOps
    /\ IsBuffer(last.input)
    /\ ~isBufferV8Bytecode(last.input)
    /\ \/ ~brotliDecompressSync(last.input).ok
       \/ ~isBufferV8Bytecode(brotliDecompressSync(last.input).bytes) )
  => /\ last.err = "Invalid bytecode buffer"
     /\ ~last.fixRan /\ ~last.placeholder /\ ~last.script

\* C10: under every engine of major version 12 to 20 Fixup takes the modern
\* bucket and changes bytes 12-15 only; the catch-all bucket is taken only
\* outside 8.8.x/8.9.x and majors 12 to 20.
C10_BucketByMajor ==
  last.fixRan =>
    /\ version[1] \in 12..20 =>
         /\ last.bucket = "modern"
         /\ Differences(last.target, last.fixed) \subseteq 12..15
    /\ last.bucket = "catchall" =>
         /\ ~(version[1] = 8 /\ version[2] \in {8, 9})
         /\ version[1] \notin 12..20

\* ========================================================== compile side
\* Executable paths a request may name, and the one require('electron')
\* answers with.
DefaultElectron == "node_modules/electron/dist/electron"
ExistingExe == "/opt/electron/electron"
MissingExe == "/nowhere/electron"

\* require('electron'): the default path, or a throw when the package is
\* not installed ("missing"); "stale": the path it names is gone.
RequireElectron(e) ==
  IF e = "missing" THEN [err |-> "Cannot find module 'electron'", path |-> ""]
  ELSE [err |-> "", path |-> DefaultElectron]

existsSync(path, e) ==
  path = ExistingExe \/ (path = DefaultElectron /\ e = "ok")

\* The engine build embedded in the Electron executable.
ElectronVersion == <<20, 11, 0>>

\* The second argument of compileElectronCode as a JavaScript value:
\* a boolean, or an object with electronPath and compress (a call without
\* options behaves as one with an object that sets neither).
BooleanOptions(b) ==
  [kind |-> "boolean", bool |-> b, electronPath |-> "", compress |-> FALSE]
ObjectOptions(electronPath, compress) ==
  [kind |-> "object", bool |-> FALSE, electronPath |-> electronPath,
   compress |-> compress]

\* options = options || {}, then the properties read from it: a property
\* of {} or of the primitive true is undefined (falsy).
OptionsOrEmpty(options) ==
  IF options.kind = "object" THEN options ELSE ObjectOptions("", FALSE)

\* Module.wrap(code): 62 code units before the code and 4 after it.
ModuleWrap(code) == Source(code.len + 66, code.parses)

\* Splitting the bytes a child writes into k chunks.
Chunks(bytes, k) ==
  [i \in 1..k |-> SubSeq(bytes, ((i - 1) * Len(bytes)) \div k + 1,
                                (i * Len(bytes)) \div k)]

RECURSIVE Concat(_)
Concat(chunks) ==
  IF Len(chunks) = 0 THEN <<>> ELSE Head(chunks) \o Concat(Tail(chunks))

\* What a spawned child may go on to do.  cli.js --compile --no-module -
\* compiles its stdin under the Electron engine and writes the buffer to
\* stdout; it may fail to start ('error'), die part-way with a non-zero
\* code, or have its stdout pipe fail.  A child that could not be started
\* has its streams destroyed: they emit neither 'data' nor 'end'.
ChildPlans(code) ==
  LET bytes == createCachedData(code, ElectronVersion)
      plan(chunks, code_, stderr, error, streamError) ==
        [pending |-> chunks, output |-> Concat(chunks), stderr |-> stderr,
         error |-> error, streamError |-> streamError, exits |-> ~error,
         exitCode |-> code_]
  IN IF ~code.parses
     THEN { plan(<<>>, 1, 1, FALSE, FALSE) }
     ELSE { plan(Chunks(bytes, k), 0, 0, FALSE, e) :
              k \in 1..MaxChunks, e \in BOOLEAN }
          \cup { plan(SubSeq(Chunks(bytes, MaxChunks), 1, j), 1, 1, FALSE, FALSE) :
                   j \in 0..(MaxChunks - 1) }
          \cup { plan(<<>>, 0, 0, TRUE, FALSE) }

\* Lines 103-111 of compileElectronCode: locating the executable.  A throw
\* in the promise executor rejects the promise.
LocateElectron(options, e) ==
  LET electronExecutablePath == RequireElectron(e)
      opts == OptionsOrEmpty(options)
      electronPath == IF opts.electronPath # "" THEN opts.electronPath
                      ELSE electronExecutablePath.path
  IN IF electronExecutablePath.err # ""
     THEN [err |-> electronExecutablePath.err, path |-> ""]
     ELSE IF ~existsSync(electronPath, e)
     THEN [err |-> "Electron not found", path |-> ""]
     ELSE [err |-> "", path |-> electronPath]

\* compileElectronCode(javascriptCode, options): the promise executor.
\* Either the promise is rejected at once or a child is spawned, the code
\* written to its stdin and the listeners attached.
compileElectronCode(javascriptCode, options) ==
  LET where == LocateElectron(options, env)
  IN /\ data' = <<>>
     /\ IF where.err # ""
        THEN /\ promise' = [NoPromise EXCEPT !.state = "rejected", !.err = where.err]
             /\ child' = NoChild
        ELSE /\ promise' = [NoPromise EXCEPT !.state = "pending"]
             /\ \E p \in ChildPlans(javascriptCode) :
                  child' = [spawned |-> TRUE, exe |-> where.path,
                            stdin |-> javascriptCode,
                            compress |-> OptionsOrEmpty(options).compress,
                            pending |-> p.pending, output |-> p.output,
                            stderr |-> p.stderr, error |-> p.error,
                            streamError |-> p.streamError,
                            streamErrored |-> FALSE,
                            destroyed |-> p.error, ended |-> FALSE,
                            exits |-> p.exits, exited |-> FALSE,
                            exitCode |-> p.exitCode]

\* compileFile is suspended at its await and the promise has settled: its
\* continuation is a microtask and runs before any further child event.
ResumeDue == pc = "awaiting" /\ promise.state \in {"resolved", "rejected"}

ChildLive == child.spawned /\ ~ResumeDue

\* onEnd (lines 96-100), run by the event named by: compress, then resolve.
\* resolve on a settled promise does nothing.
onEnd(by, child2) ==
  LET out == IF child.compress THEN brotliCompressSync(data) ELSE data
  IN /\ data' = out
     /\ child' = child2
     /\ promise' =
          IF promise.state = "pending"
          THEN [promise EXCEPT !.state = "resolved", !.value = out, !.by = by,
                  !.compressions = @ + (IF child.compress THEN 1 ELSE 0)]
          ELSE [promise EXCEPT
                  !.compressions = @ + (IF child.compress THEN 1 ELSE 0)]

\* child.stdout 'data'
StdoutData ==
  /\ ChildLive
  /\ child.pending # <<>> /\ ~child.ended /\ ~child.destroyed
  /\ data' = data \o Head(child.pending)
  /\ child' = [child EXCEPT !.pending = Tail(@)]
  /\ UNCHANGED << loadVars, env, req, pc, promise, outcome >>

\* child.stdout 'end', once everything written has been read
StdoutEnd ==
  /\ ChildLive
  /\ child.pending = <<>> /\ ~child.ended /\ ~child.destroyed
  /\ onEnd("end", [child EXCEPT !.ended = TRUE])
  /\ UNCHANGED << loadVars, env, req, pc, outcome >>

\* child.stdout 'error': logged; the stream is destroyed and emits no more.
StdoutError ==
  /\ ChildLive
  /\ child.streamError /\ ~child.ended /\ ~child.destroyed
  /\ child' = [child EXCEPT !.streamError = FALSE, !.streamErrored = TRUE,
                            !.destroyed = TRUE]
  /\ UNCHANGED << loadVars, env, req, pc, data, promise, outcome >>

\* child.stderr 'data': logged only.
StderrData ==
  /\ ChildLive
  /\ child.stderr > 0
  /\ child' = [child EXCEPT !.stderr = @ - 1]
  /\ UNCHANGED << loadVars, env, req, pc, data, promise, outcome >>

\* child 'error' (the process could not be started): logged, then reject.
ChildError ==
  /\ ChildLive
  /\ child.error
  /\ child' = [child EXCEPT !.error = FALSE]
  /\ promise' = IF promise.state = "pending"
                THEN [promise EXCEPT !.state = "rejected", !.err = "spawn error",
                                     !.by = "error"]
                ELSE promise
  /\ UNCHANGED << loadVars, env, req, pc, data, outcome >>

\* child 'exit', with whatever exit code
ChildExit ==
  /\ ChildLive
  /\ child.exits /\ ~child.exited
  /\ onEnd("exit", [child EXCEPT !.exited = TRUE])
  /\ UNCHANGED << loadVars, env, req, pc, outcome >>

\* ------------------------------------------------------------ requests
\* Source files: a body of two code units that parses or not, with or
\* without a leading #! line.
Bodies == { Source(2, ok) : ok \in BOOLEAN }

ExePaths == {"", ExistingExe, MissingExe}

\* The arguments of compileFile once lines 222-237 have read them: as a
\* string, args is the filename and everything else takes its default.
CompileFileArgs ==
  { [op |-> "compileFile", source |-> b, sheBang |-> sb,
     compileAsModule |-> m, compress |-> c, electron |-> (e \/ ep # ""),
     electronPath |-> ep, createLoader |-> l] :
      b \in Bodies, sb \in BOOLEAN, m \in BOOLEAN, c \in BOOLEAN,
      e \in BOOLEAN, ep \in ExePaths, l \in BOOLEAN }

\* A direct call compileElectronCode(code, {electronPath, compress}).
CompileElectronCodeArgs ==
  { [op |-> "compileElectronCode", source |-> b, sheBang |-> FALSE,
     compileAsModule |-> FALSE, compress |-> c, electron |-> TRUE,
     electronPath |-> ep, createLoader |-> FALSE] :
      b \in Bodies, c \in BOOLEAN, ep \in ExePaths }

\* loaderCodeCommonJS(targetPath, sheBang): the lines of the stub, each
\* line a code below zero: -5 the #! line, -6 an empty line, -7
\* require('bytenode'), -8 module.exports = require(targetPath).
loaderCodeCommonJS(sheBang) ==
  (IF sheBang THEN <<-5, -6>> ELSE <<>>) \o <<-7, -6, -8>>

\* Lines 271-277 of compileFile: write the artifact, then the loader stub.
WriteOutputs(r, bytecodeBuffer) ==
  /\ files' = [files EXCEPT
                 ![JscPath] = bytecodeBuffer,
                 ![LoaderPath] = IF r.createLoader
                                 THEN loaderCodeCommonJS(r.sheBang) ELSE @]
  /\ outcome' = [done |-> TRUE, err |-> "", written |-> TRUE]

\* compileFile(args), up to its first suspension: in-process it runs to its
\* end; for Electron it calls compileElectronCode(code, compress,
\* { electronPath }) and awaits the promise.
CompileFile(args) ==
  LET code == IF args.compileAsModule THEN ModuleWrap(args.source)
              ELSE args.source
      compiled == compileCode(code, args.compress, version)
  IN /\ pc = "idle" /\ req.op = "none"
     /\ req' = args
     /\ IF args.electron
        THEN /\ compileElectronCode(code, BooleanOptions(args.compress))
             /\ pc' = "awaiting"
             /\ UNCHANGED << files, outcome >>
        ELSE /\ pc' = "done"
             /\ IF compiled.err # ""
                THEN /\ outcome' = [done |-> TRUE, err |-> compiled.err,
                                    written |-> FALSE]
                     /\ UNCHANGED files
                ELSE WriteOutputs(args, compiled.bytes)
             /\ UNCHANGED << child, data, promise >>
     /\ UNCHANGED << version, callerBuf, last, env >>

\* compileFile after the await: throw the rejection, or write the outputs.
CompileFileResume ==
  /\ ResumeDue
  /\ pc' = "done"
  /\ IF promise.state = "rejected"
     THEN /\ outcome' = [done |-> TRUE, err |-> promise.err, written |-> FALSE]
          /\ UNCHANGED files
     ELSE WriteOutputs(req, promise.value)
  /\ UNCHANGED << version, callerBuf, last, env, req, child, data, promise >>

\* A direct call of compileElectronCode: the caller is handed the promise.
CompileElectronCode(args) ==
  /\ pc = "idle" /\ req.op = "none"
  /\ req' = args
  /\ pc' = "done"
  /\ compileElectronCode(args.source,
                         ObjectOptions(args.electronPath, args.compress))
  /\ UNCHANGED << loadVars, env, outcome >>

\* ---------------------------------------------- specification of compiles
\* What the output paths hold beforehand: nothing, or an earlier artifact
\* and stub.
InitCompile ==
  /\ version = <<18, 17, 0>>
  /\ files \in { [p \in Paths |-> Absent],
                 [p \in Paths |->
                    IF p = JscPath
                    THEN createCachedData(Source(1, TRUE), <<12, 22, 1>>)
                    ELSE IF p = LoaderPath THEN loaderCodeCommonJS(TRUE)
                    ELSE Absent] }
  /\ callerBuf = NotABuffer
  /\ last = NoLoad
  /\ env \in {"ok", "missing", "stale"}
  /\ CompileAtRest

NextCompile ==
  \/ \E a \in CompileFileArgs : CompileFile(a)
  \/ \E a \in CompileElectronCodeArgs : CompileElectronCode(a)
  \/ CompileFileResume
  \/ StdoutData
  \/ StdoutEnd
  \/ StdoutError
  \/ StderrData
  \/ ChildError
  \/ ChildExit

SpecCompile == InitCompile /\ [][NextCompile]_vars

\* ---------------------------------------------------- claims on compiles
\* C1: the promise of compileElectronCode is resolved by the 'exit' event
\* only, with every stdout chunk the child wrote, compressed exactly once
\* when compress was asked for.
C1_ResolvedAtExitWithAllOutput ==
  promise.state = "resolved" =>
    /\ promise.by = "exit" /\ child.exited
    /\ promise.value = IF child.compress THEN brotliCompressSync(child.output)
                       ELSE child.output
    /\ promise.compressions = IF child.compress THEN 1 ELSE 0

\* C2: once the child has exited with a non-zero code, or its stdout has
\* emitted an error, the promise is rejected, never resolved.
C2_FailureRejects ==
  ( child.spawned /\ ( (child.exited /\ child.exitCode # 0)
                       \/ child.streamErrored ) )
  => promise.state # "resolved"

\* C7: with an explicit executable path that does not exist, through
\* compileElectronCode or compileFile, the promise is rejected with
\* 'Electron not found' and no child is spawned; with an explicit path that
\* exists the child is spawned from it, whatever the default is.
C7_ExplicitElectronPath ==
  /\ (req.op \in {"compileFile", "compileElectronCode"}
        /\ req.electronPath = MissingExe)
       => /\ promise.state = "rejected" /\ promise.err = "Electron not found"
          /\ ~child.spawned
  /\ (req.op \in {"compileFile", "compileElectronCode"}
        /\ req.electronPath = ExistingExe)
       => /\ child.spawned /\ child.exe = ExistingExe

\* A buffer is in compressed form: not a cache buffer as it stands, and a
\* cache buffer once decompressed.
IsCompressed(b) ==
  /\ ~isBufferV8Bytecode(b)
  /\ brotliDecompressSync(b).ok
  /\ isBufferV8Bytecode(brotliDecompressSync(b).bytes)

\* C8: what compileFile writes to the output file is compressed exactly
\* when the request's compress flag is true, in-process and through
\* Electron alike (here: whenever the compile itself went through, the
\* child having exited with code 0 and all its output having been read).
C8_CompressedIffRequested ==
  ( /\ req.op = "compileFile" /\ outcome.done /\ outcome.written
    /\ req.electron => /\ child.exited /\ child.exitCode = 0
                       /\ child.pending = <<>> /\ ~child.streamErrored
                       /\ promise.by = "exit" )
  => (IsCompressed(files[JscPath]) <=> req.compress)

\* C9: compileFile, compiling in-process a source with a syntax error,
\* fails with the SyntaxError of compileCode and leaves the output file and
\* the loader stub as they were.
C9_SyntaxErrorWritesNothing ==
  [][ (req'.op = "compileFile" /\ ~req'.electron /\ ~req'.source.parses)
      => /\ outcome'.done /\ outcome'.err = "SyntaxError" /\ ~outcome'.written
         /\ files' = files ]_vars

\* C9 witness: such a request has failed, a loader stub having been asked
\* for, and the earlier artifact and stub are still in place.
C9_Witness ==
  /\ req.op = "compileFile" /\ ~req.electron /\ ~req.source.parses
  /\ req.createLoader /\ pc = "done" /\ outcome.err = "SyntaxError"
  /\ files[JscPath] # Absent /\ files[LoaderPath] = loaderCodeCommonJS(TRUE)

====
